---- MODULE Spec2Model ----
(***************************************************************************)
(* Model of the algorithmic core of esrag:                                 *)
(*   - the merge pass of JinaTextSegmenter.split_text  (SpecMerge)         *)
(*   - the scan at the start of split_text             (SpecScan)          *)
(*   - the merge loop of the Painless ingest script    (SpecScript)        *)
(*   - the Reciprocal Rank Fusion function rrf         (SpecRrf,           *)
(*                                                      SpecRrfDup)        *)
(*   - the hybrid query of Collection.query            (SpecQuery)         *)
(*   - SearchEngine.search and advanced_search         (SpecEngine)        *)
(*   - the fixed-size chunking script                  (SpecChunking)      *)
(* Each specification drives its own group of variables and leaves the     *)
(* other groups at their idle values.                                      *)
(***************************************************************************)
EXTENDS Integers, Sequences, FiniteSets, TLC

VARIABLES
    \* ---- split_text ----
    input,      \* the match list as built by the scan, never modified
    chunks,     \* the list `chunks`; its dicts are mutated in place
    result,     \* the list `result`: references (positions) into chunks
    i,          \* loop variable of the merge loop, 1-based
    index,      \* the counter `index`
    mpc,        \* position in split_text: "idle", "loop", "done", "raised"
    \* ---- rrf ----
    queries,    \* the positional arguments *queries
    k,          \* the keyword argument k
    rrf_out,    \* the returned list of (key, score) pairs
    rpc,        \* position in rrf: "idle", "call", "done"
    \* ---- Collection.query ----
    size,               \* the argument size
    include_embedding,  \* the argument include_embedding
    model,              \* self.model: "none" or a configured model
    searches,           \* the coroutines in `searches`, with their progress
    completed,          \* positions in searches, in the order they finished
    responses,          \* what asyncio.gather returned
    resp_i,             \* loop variable over responses, 1-based
    search_results,     \* the list of ranked lists
    all_chunk_data,     \* the dict chunk_key -> chunk details
    merged_results,     \* the fused (chunk_key, score) list
    final_results,      \* the returned list
    qpc,                \* position in query
    \* ---- the scan at the start of split_text ----
    text,       \* the argument text, a sequence of characters
    scan_pos,   \* where re.finditer resumes, 1-based
    matches,    \* the matches found so far, as (start, end) offsets
    spc,        \* position in the scan: "idle", "scan", "done"
    \* ---- SearchEngine.search and SearchEngine.advanced_search ----
    se_method,          \* which of the two methods is running
    enable_fuzzy,       \* the argument enable_fuzzy
    enable_phrase,      \* the argument enable_phrase
    se_size,            \* the argument size
    se_search_results,  \* the list search_results of (search_type, response)
    se_log,             \* the failures printed so far, by search type
    combined_results,   \* the response handed to _format_results
    se_returned,        \* the dict the method returns
    se_pc,              \* position in the method
    \* ---- the Painless script of Splitter.get_script_source ----
    ctx_chunks,         \* ctx.chunks as the script leaves it
    script_pc,          \* position in the script: "idle", "run", "done"
    \* ---- the Painless script of get_chunking_script ----
    content_length,     \* content.length()
    chunkSize,          \* int chunkSize
    overlap,            \* int overlap
    start,              \* int start
    fixed_chunks,       \* the list chunks, as (start, end) of each substring
    ck_pc               \* position in the script

mergeVars == <<input, chunks, result, i, index, mpc>>
rrfVars   == <<queries, k, rrf_out, rpc>>
queryVars == <<size, include_embedding, model, searches, completed, responses, resp_i,
               search_results, all_chunk_data, merged_results, final_results, qpc>>
scanVars  == <<text, scan_pos, matches, spc>>
engineVars == <<se_method, enable_fuzzy, enable_phrase, se_size, se_search_results,
                se_log, combined_results, se_returned, se_pc>>
scriptVars == <<ctx_chunks, script_pc>>
chunkVars == <<content_length, chunkSize, overlap, start, fixed_chunks, ck_pc>>
vars      == <<mergeVars, rrfVars, queryVars, scanVars, engineVars, scriptVars, chunkVars>>

(***************************************************************************)
(* Generic helpers                                                         *)
(***************************************************************************)
Last(s) == s[Len(s)]

Range(s) == {s[p] : p \in 1..Len(s)}

SeqsUpTo(S, n) == UNION {[1..m -> S] : m \in 0..n}

(***************************************************************************)
(* JinaTextSegmenter.split_text: merge pass                                *)
(***************************************************************************)
MAX_SENTENCE_LENGTH == 600

INF == 10000000

\* Bound: number of spans the scan produced.
MaxSpans == 4

\* Lengths of the scanned spans (around the threshold 300) and the number of
\* unmatched characters in front of a span.
SpanLengths == {100, 299, 300, 400}

Gaps == {0, 1}

min_chunk_length_third == MAX_SENTENCE_LENGTH \div 3

min_chunk_length == MAX_SENTENCE_LENGTH \div 2

RECURSIVE MatchStart(_, _, _)
\* match.start() of the j-th match: matches are disjoint and in text order.
MatchStart(lens, gaps, j) ==
    IF j = 1 THEN gaps[1]
    ELSE MatchStart(lens, gaps, j - 1) + lens[j - 1] + gaps[j]

\* The list comprehension over re.finditer: one dict per match.
ScannedChunks(lens, gaps) ==
    [j \in 1..Len(lens) |->
        [content  |-> <<j>>,
         metadata |-> [index  |-> j - 1,
                       length |-> lens[j],
                       start  |-> MatchStart(lens, gaps, j),
                       end    |-> MatchStart(lens, gaps, j) + lens[j]]]]

chunk == chunks[i]

chunk_length == chunk.metadata.length

HasLeft == result # <<>>

HasRight == i + 1 <= Len(chunks)

left == chunks[Last(result)]

right == chunks[i + 1]

left_length == IF HasLeft THEN left.metadata.length ELSE INF

right_length == IF HasRight THEN right.metadata.length ELSE INF

IsLongEnoughStale == input[i].metadata.length >= min_chunk_length

IsLongEnough == chunk_length >= min_chunk_length

HasNeighbourAlways == TRUE

HasNeighbour == left_length < INF \/ right_length < INF

GoesLeftWheneverPossible == left_length < INF

GoesLeftStrict == left_length < right_length

GoesLeft == left_length <= right_length

ReindexedKeepOld(c, idx) == c

Reindexed(c, idx) == [c EXCEPT !.metadata.index = idx]

MergedLeftKeepContent(l, c) ==
    [l EXCEPT !.metadata.length = l.metadata.length + c.metadata.length,
              !.metadata.end = c.metadata.end]

MergedLeft(l, c) ==
    [l EXCEPT !.content = l.content \o c.content,
              !.metadata.length = l.metadata.length + c.metadata.length,
              !.metadata.end = c.metadata.end]

MergedRightKeepLength(r, c) ==
    [r EXCEPT !.content = c.content \o r.content,
              !.metadata.start = c.metadata.start]

MergedRightKeepStart(r, c) ==
    [r EXCEPT !.content = c.content \o r.content,
              !.metadata.length = r.metadata.length + c.metadata.length]

MergedRight(r, c) ==
    [r EXCEPT !.content = c.content \o r.content,
              !.metadata.length = r.metadata.length + c.metadata.length,
              !.metadata.start = c.metadata.start]

InLoop == mpc = "loop" /\ i <= Len(chunks)

\* chunk_length >= min_chunk_length: re-index and append.
Keep ==
    /\ InLoop
    /\ IsLongEnough
    /\ chunks' = [chunks EXCEPT ![i] = Reindexed(chunk, index)]
    /\ result' = Append(result, i)
    /\ index' = index + 1
    /\ i' = i + 1
    /\ UNCHANGED <<input, mpc, rrfVars, queryVars, scanVars, engineVars, scriptVars, chunkVars>>

\* Short chunk folded into the last chunk of result.  With result empty,
\* `left` is None and left['content'] raises TypeError.
MergeLeft ==
    /\ InLoop
    /\ ~IsLongEnough
    /\ HasNeighbour
    /\ GoesLeft
    /\ IF HasLeft
       THEN /\ chunks' = [chunks EXCEPT ![Last(result)] = MergedLeft(left, chunk)]
            /\ i' = i + 1
            /\ mpc' = mpc
       ELSE /\ mpc' = "raised"
            /\ UNCHANGED <<chunks, i>>
    /\ UNCHANGED <<input, result, index, rrfVars, queryVars, scanVars, engineVars, scriptVars, chunkVars>>

\* Short chunk folded into the next original chunk, in place.
MergeRight ==
    /\ InLoop
    /\ ~IsLongEnough
    /\ HasNeighbour
    /\ ~GoesLeft
    /\ IF HasRight
       THEN /\ chunks' = [chunks EXCEPT ![i + 1] = MergedRight(right, chunk)]
            /\ i' = i + 1
            /\ mpc' = mpc
       ELSE /\ mpc' = "raised"
            /\ UNCHANGED <<chunks, i>>
    /\ UNCHANGED <<input, result, index, rrfVars, queryVars, scanVars, engineVars, scriptVars, chunkVars>>

\* Short chunk with neither neighbour: nothing is done with it.
Drop ==
    /\ InLoop
    /\ ~IsLongEnough
    /\ ~HasNeighbour
    /\ i' = i + 1
    /\ UNCHANGED <<input, chunks, result, index, mpc, rrfVars, queryVars, scanVars, engineVars, scriptVars, chunkVars>>

\* Loop exhausted: return result.
MergeReturn ==
    /\ mpc = "loop"
    /\ i > Len(chunks)
    /\ mpc' = "done"
    /\ UNCHANGED <<input, chunks, result, i, index, rrfVars, queryVars, scanVars, engineVars, scriptVars, chunkVars>>

\* The value split_text returns: the dicts result refers to.
Returned == [p \in 1..Len(result) |-> chunks[result[p]]]

RrfIdle ==
    /\ queries = <<>>
    /\ k = 0
    /\ rrf_out = <<>>
    /\ rpc = "idle"

ScanIdle ==
    /\ text = <<>>
    /\ scan_pos = 1
    /\ matches = <<>>
    /\ spc = "idle"

EngineIdle ==
    /\ se_method = "none"
    /\ enable_fuzzy = FALSE
    /\ enable_phrase = FALSE
    /\ se_size = 0
    /\ se_search_results = <<>>
    /\ se_log = <<>>
    /\ combined_results = <<>>
    /\ se_returned = <<>>
    /\ se_pc = "idle"

ScriptIdle ==
    /\ ctx_chunks = <<>>
    /\ script_pc = "idle"

ChunkIdle ==
    /\ content_length = 0
    /\ chunkSize = 1
    /\ overlap = 0
    /\ start = 0
    /\ fixed_chunks = <<>>
    /\ ck_pc = "idle"

QueryIdle ==
    /\ size = 0
    /\ include_embedding = FALSE
    /\ model = "none"
    /\ searches = <<>>
    /\ completed = <<>>
    /\ responses = <<>>
    /\ resp_i = 1
    /\ search_results = <<>>
    /\ all_chunk_data = <<>>
    /\ merged_results = <<>>
    /\ final_results = <<>>
    /\ qpc = "idle"

\* The matches the scan finds in the 169-character text
\*   "# Title\n\nThis is a short sentence. This is another much longer
\*    sentence ... in this system."
\* the heading line "# Title\n" at [0, 8) and the rest of the text, one
\* standalone line, at [9, 169).
ScenarioLengths == <<8, 160>>

ScenarioGaps == <<0, 1>>

ScenarioChunks == ScannedChunks(ScenarioLengths, ScenarioGaps)

InitMerge ==
    /\ \/ \E n \in 0..MaxSpans :
            \E lens \in [1..n -> SpanLengths], gaps \in [1..n -> Gaps] :
               /\ input = ScannedChunks(lens, gaps)
               /\ chunks = ScannedChunks(lens, gaps)
       \/ /\ input = ScenarioChunks
          /\ chunks = ScenarioChunks
    /\ result = <<>>
    /\ i = 1
    /\ index = 0
    /\ mpc = "loop"
    /\ RrfIdle
    /\ QueryIdle
    /\ ScanIdle
    /\ EngineIdle
    /\ ScriptIdle
    /\ ChunkIdle

NextMerge == Keep \/ MergeLeft \/ MergeRight \/ Drop \/ MergeReturn

SpecMerge == InitMerge /\ [][NextMerge]_vars

\* split_text as a function of the match list: the loop state after the
\* iterations for chunks[0..j-1], and the list it returns.
MergeIteration(st, j) ==
    LET c  == st.chunks[j]
        cl == c.metadata.length
        ll == IF st.result # <<>>
              THEN st.chunks[Last(st.result)].metadata.length ELSE INF
        rl == IF j + 1 <= Len(st.chunks)
              THEN st.chunks[j + 1].metadata.length ELSE INF
    IN  IF cl >= min_chunk_length
        THEN [chunks |-> [st.chunks EXCEPT ![j] = Reindexed(c, st.index)],
              result |-> Append(st.result, j),
              index  |-> st.index + 1]
        ELSE IF ~(ll < INF \/ rl < INF) THEN st
        ELSE IF ll <= rl
        THEN [st EXCEPT !.chunks[Last(st.result)] = MergedLeft(@, c)]
        ELSE [st EXCEPT !.chunks[j + 1] = MergedRight(@, c)]

RECURSIVE MergeLoop(_, _)
MergeLoop(cs, j) ==
    IF j = 0 THEN [chunks |-> cs, result |-> <<>>, index |-> 0]
    ELSE MergeIteration(MergeLoop(cs, j - 1), j)

MergePass(cs) ==
    LET st == MergeLoop(cs, Len(cs))
    IN  [p \in 1..Len(st.result) |-> st.chunks[st.result[p]]]

(***************************************************************************)
(* Splitter.get_script_source: the merge loop of the Painless script       *)
(*                                                                         *)
(* The script's matcher loop builds the same list of maps as the list      *)
(* comprehension of split_text; the script is run on the match list        *)
(* `input`.                                                                *)
(***************************************************************************)
\* str(self.segmenter.MAX_SENTENCE_LENGTH // 2), spliced into the script.
minChunkLength == MAX_SENTENCE_LENGTH \div 2

ScriptGoesLeftStrict(leftLength, rightLength) == leftLength < rightLength

\* if (leftLength <= rightLength)
ScriptGoesLeft(leftLength, rightLength) == leftLength <= rightLength

\* One iteration of `for (int i = 0; i < chunks.size(); i++)`, for the
\* 1-based position j, on the script's chunks, result and index.
ScriptIteration(st, j) ==
    LET metadata    == st.chunks[j].metadata
        chunkLength == metadata.length
        leftAt      == IF Len(st.result) > 0 THEN Last(st.result) ELSE 0
        rightAt     == IF j + 1 <= Len(st.chunks) THEN j + 1 ELSE 0
        leftLength  == IF leftAt # 0 THEN st.chunks[leftAt].metadata.length ELSE INF
        rightLength == IF rightAt # 0 THEN st.chunks[rightAt].metadata.length ELSE INF
    IN  IF chunkLength >= minChunkLength
        THEN [chunks |-> [st.chunks EXCEPT ![j].metadata.index = st.index],
              result |-> Append(st.result, j),
              index  |-> st.index + 1]
        ELSE IF ~(leftLength < INF \/ rightLength < INF) THEN st
        ELSE IF ScriptGoesLeft(leftLength, rightLength)
        THEN [st EXCEPT !.chunks[leftAt] =
                 [@ EXCEPT !.content = @ \o st.chunks[j].content,
                           !.metadata.length = leftLength + chunkLength,
                           !.metadata.end = metadata.end]]
        ELSE [st EXCEPT !.chunks[rightAt] =
                 [@ EXCEPT !.content = st.chunks[j].content \o @,
                           !.metadata.length = rightLength + chunkLength,
                           !.metadata.start = metadata.start]]

RECURSIVE ScriptLoop(_, _)
ScriptLoop(cs, j) ==
    IF j = 0 THEN [chunks |-> cs, result |-> <<>>, index |-> 0]
    ELSE ScriptIteration(ScriptLoop(cs, j - 1), j)

\* ctx.chunks = result
ScriptMerge(cs) ==
    LET st == ScriptLoop(cs, Len(cs))
    IN  [p \in 1..Len(st.result) |-> st.chunks[st.result[p]]]

\* The script runs as one ingest processor step.
ScriptRun ==
    /\ script_pc = "run"
    /\ ctx_chunks' = ScriptMerge(input)
    /\ script_pc' = "done"
    /\ UNCHANGED <<mergeVars, rrfVars, queryVars, scanVars, engineVars, chunkVars>>

\* split_text and the script are given the same match list.
InitScript ==
    /\ \/ \E n \in 0..MaxSpans :
            \E lens \in [1..n -> SpanLengths], gaps \in [1..n -> Gaps] :
               /\ input = ScannedChunks(lens, gaps)
               /\ chunks = ScannedChunks(lens, gaps)
       \/ /\ input = ScenarioChunks
          /\ chunks = ScenarioChunks
    /\ result = <<>>
    /\ i = 1
    /\ index = 0
    /\ mpc = "loop"
    /\ ctx_chunks = <<>>
    /\ script_pc = "run"
    /\ RrfIdle
    /\ QueryIdle
    /\ ScanIdle
    /\ EngineIdle
    /\ ChunkIdle

NextScript == NextMerge \/ ScriptRun

SpecScript == InitScript /\ [][NextScript]_vars

(***************************************************************************)
(* rrf: Reciprocal Rank Fusion of the ranked lists in `queries`            *)
(*                                                                         *)
(* A ranked list is a sequence of <<key, native score>> pairs.  A fused    *)
(* score is the rational number 1/(k+rank) summed over lists; the model    *)
(* holds it exactly, as the integer obtained by multiplying it by          *)
(* Denom(k), the product of all k + r for the ranks r that can occur.      *)
(***************************************************************************)
\* Bound: length of one ranked list.
MaxLen == 3

\* Bound: number of ranked lists passed to rrf.
MaxLists == 2

Keys == {"x", "y", "z"}

Ks == {0, 1, 60}

\* Native scores by position: as a search engine orders them (descending)
\* and in an order unrelated to the position (ascending).
Scorings == {[p \in 1..MaxLen |-> MaxLen + 1 - p], [p \in 1..MaxLen |-> p]}

KeysOf(q) == [p \in 1..Len(q) |-> q[p][1]]

NoDuplicateKeys(q) ==
    \A a, b \in 1..Len(q) : a # b => q[a][1] # q[b][1]

RankedLists ==
    {[p \in 1..Len(ks) |-> <<ks[p], sc[p]>>] :
        ks \in {s \in SeqsUpTo(Keys, MaxLen) :
                   \A a, b \in 1..Len(s) : a # b => s[a] # s[b]},
        sc \in Scorings}

RECURSIVE Denom(_, _)
Denom(kk, r) == IF r = 0 THEN 1 ELSE (kk + r) * Denom(kk, r - 1)

ReciprocalNoK(kk, rank) == Denom(kk, MaxLen) \div rank

\* 1.0 / (k + rank[d]), times Denom(k, MaxLen).
Reciprocal(kk, rank) == Denom(kk, MaxLen) \div (kk + rank)

RECURSIVE Dedup(_)
\* Insertion order of a dict filled from s: first occurrences, in order.
Dedup(s) ==
    IF s = <<>> THEN <<>>
    ELSE LET h  == Dedup(SubSeq(s, 1, Len(s) - 1))
             e  == s[Len(s)]
         IN  IF e \in Range(h) THEN h ELSE Append(h, e)

RankByScore(q) ==
    [d \in Range(KeysOf(q)) |->
        LET at == CHOOSE p \in 1..Len(q) : q[p][1] = d
        IN  1 + Cardinality({p \in 1..Len(q) : q[p][2] > q[at][2]})]

\* {d[0]: i + 1 for i, d in enumerate(q)}: a later occurrence of a key
\* overwrites the rank of an earlier one.
Rank(q) ==
    [d \in Range(KeysOf(q)) |->
        CHOOSE p \in 1..Len(q) :
            /\ q[p][1] = d
            /\ \A p2 \in (p + 1)..Len(q) : q[p2][1] # d]

RECURSIVE Flatten(_)
Flatten(ss) ==
    IF ss = <<>> THEN <<>>
    ELSE Flatten(SubSeq(ss, 1, Len(ss) - 1)) \o ss[Len(ss)]

\* Keys of the dict `result` in insertion order: ranks scanned in argument
\* order, each rank's keys in its own insertion order.
ResultKeys(qs) == Dedup(Flatten([l \in 1..Len(qs) |-> Dedup(KeysOf(qs[l]))]))

AddedOverwriting(before, kk, rank) == Reciprocal(kk, rank)

\* (result[d] if d in result else 0) + 1.0 / (k + rank[d])
Added(before, kk, rank) == before + Reciprocal(kk, rank)

RECURSIVE Accumulated(_, _, _, _)
\* result[d] after the first l ranks have been scanned (0: not in result).
Accumulated(qs, kk, d, l) ==
    IF l = 0 THEN 0
    ELSE IF d \in DOMAIN Rank(qs[l])
         THEN Added(Accumulated(qs, kk, d, l - 1), kk, Rank(qs[l])[d])
         ELSE Accumulated(qs, kk, d, l - 1)

\* result.items()
ResultItems(qs, kk) ==
    LET ks == ResultKeys(qs)
    IN  [p \in 1..Len(ks) |-> <<ks[p], Accumulated(qs, kk, ks[p], Len(qs))>>]

ComesBeforeUnstable(a, b) == a[2] > b[2]

ComesBeforeAscending(a, b) == a[2] <= b[2]

\* Whether a, met earlier in the input, stays in front of b:
\* sorted(key=score, reverse=True) is stable.
ComesBefore(a, b) == a[2] >= b[2]

RECURSIVE SortedItems(_)
\* sorted(items, key=lambda kv: kv[1], reverse=True)
SortedItems(items) ==
    IF items = <<>> THEN <<>>
    ELSE LET done == SortedItems(SubSeq(items, 1, Len(items) - 1))
             e    == items[Len(items)]
             ahead == {p \in 1..Len(done) : ComesBefore(done[p], e)}
             n    == IF ahead = {} THEN 0
                     ELSE CHOOSE p \in ahead : \A p2 \in ahead : p2 <= p
         IN  SubSeq(done, 1, n) \o <<e>> \o SubSeq(done, n + 1, Len(done))

Rrf(qs, kk) == SortedItems(ResultItems(qs, kk))

\* rrf applied to its arguments.
RrfCall ==
    /\ rpc = "call"
    /\ rrf_out' = Rrf(queries, k)
    /\ rpc' = "done"
    /\ UNCHANGED <<queries, k, mergeVars, queryVars, scanVars, engineVars, scriptVars, chunkVars>>

MergeIdle ==
    /\ input = <<>>
    /\ chunks = <<>>
    /\ result = <<>>
    /\ i = 1
    /\ index = 0
    /\ mpc = "idle"

InitRrf ==
    /\ queries \in SeqsUpTo(RankedLists, MaxLists)
    /\ k \in Ks
    /\ rrf_out = <<>>
    /\ rpc = "call"
    /\ MergeIdle
    /\ QueryIdle
    /\ ScanIdle
    /\ EngineIdle
    /\ ScriptIdle
    /\ ChunkIdle

NextRrf == RrfCall

SpecRrf == InitRrf /\ [][NextRrf]_vars

\* Bound: number of ranked lists when keys may repeat within a list.
MaxDupLists == 1

\* Ranked lists in which a key may occur more than once.
ListsWithRepeats ==
    {[p \in 1..Len(ks) |-> <<ks[p], MaxLen + 1 - p>>] : ks \in SeqsUpTo(Keys, MaxLen)}

InitRrfDup ==
    /\ queries \in SeqsUpTo(ListsWithRepeats, MaxDupLists)
    /\ k \in Ks
    /\ rrf_out = <<>>
    /\ rpc = "call"
    /\ MergeIdle
    /\ QueryIdle
    /\ ScanIdle
    /\ EngineIdle
    /\ ScriptIdle
    /\ ChunkIdle

SpecRrfDup == InitRrfDup /\ [][NextRrf]_vars

(***************************************************************************)
(* The scan of split_text: re.finditer(get_pattern(), text, M | S)         *)
(*                                                                         *)
(* The pattern is modelled for single-line texts over the characters       *)
(* space, letter and full stop.  On these texts the alternatives that need *)
(* another character (#, *, =, -, <, [, >, `, ~, |, _, quotes, $, a digit, *)
(* a line break, a tab) cannot match; what is left is the indented code    *)
(* block and the alternatives built from the sentence pattern.             *)
(***************************************************************************)
\* Bound: length of the text.
MaxText == 4

Characters == {" ", "a", "."}

\* AVOID_AT_START = [\s\]})>,'] and PUNCTUATION = [.!?...]|\.{3}|[...],
\* as far as they meet Characters.
AVOID_AT_START == {" "}

PUNCTUATION == {"."}

\* (?!PUNCTUATION\s) as the pattern string spells it: the alternation of
\* PUNCTUATION is not grouped, so \s belongs to its last alternative only
\* and the lookahead refuses a start on any [.!?...] character.
NOT_PUNCTUATION_SPACE(t, s) == t[s] \notin PUNCTUATION

\* (?:^|\r?\n)(?: {4}|\t)[^\r\n]{0,MAX_LIST_ITEM_LENGTH}...: four spaces at
\* the start of the line.
IndentedCodeAt(t, s) ==
    /\ s = 1
    /\ Len(t) >= 4
    /\ \A p \in 1..4 : t[p] = " "

\* (?!AVOID_AT_START) followed by the sentence pattern (standalone line,
\* sentence, paragraph, fallback).
SentenceAt(t, s) ==
    /\ t[s] \notin AVOID_AT_START
    /\ NOT_PUNCTUATION_SPACE(t, s)

MatchesAt(t, s) == IndentedCodeAt(t, s) \/ SentenceAt(t, s)

\* [^\r\n]{1,max} is greedy and the boundary (?=[\r\n]|$) holds at the end
\* of the line: the match runs to the end of the text.
MatchEnd(t, s) == Len(t)

MatchStarts == {s \in scan_pos..Len(text) : MatchesAt(text, s)}

\* finditer yields the leftmost match at or after scan_pos.
FindMatch ==
    /\ spc = "scan"
    /\ MatchStarts # {}
    /\ LET s == CHOOSE x \in MatchStarts : \A y \in MatchStarts : x <= y
       IN  /\ matches' = Append(matches, [start |-> s - 1, end |-> MatchEnd(text, s)])
           /\ scan_pos' = MatchEnd(text, s) + 1
    /\ UNCHANGED <<text, spc, mergeVars, rrfVars, queryVars, engineVars, scriptVars, chunkVars>>

\* No further match: the list comprehension is complete.
ScanDone ==
    /\ spc = "scan"
    /\ MatchStarts = {}
    /\ spc' = "done"
    /\ UNCHANGED <<text, scan_pos, matches, mergeVars, rrfVars, queryVars, engineVars, scriptVars, chunkVars>>

InitScan ==
    /\ text \in SeqsUpTo(Characters, MaxText)
    /\ scan_pos = 1
    /\ matches = <<>>
    /\ spc = "scan"
    /\ MergeIdle
    /\ RrfIdle
    /\ QueryIdle
    /\ EngineIdle
    /\ ScriptIdle
    /\ ChunkIdle

NextScan == FindMatch \/ ScanDone

SpecScan == InitScan /\ [][NextScan]_vars

(***************************************************************************)
(* Collection.query: concurrent sub-queries, aggregation, fusion           *)
(*                                                                         *)
(* A response that has hits is held as the sequence of inner hits in the   *)
(* order in which the nested loops over response['hits']['hits'] and       *)
(* doc['inner_hits']['chunks']['hits']['hits'] visit them (a document      *)
(* without inner hits is visited by no iteration).  Scores are in the      *)
(* unit of the fused scores: a native score v is held as v * Denom(60, .). *)
(***************************************************************************)
\* Bound: the argument size.
MaxSize == 2

RRF_K == 60

\* (document id, nested offset) of the chunks the index holds.
Chunks == {<<"d1", 0>>, <<"d1", 1>>, <<"d2", 0>>}

NativeScore(v) == v * Denom(RRF_K, MaxLen)

\* The inner hits of one successful response: distinct chunks.
HitLists ==
    {[p \in 1..Len(cs) |->
         [_id |-> cs[p][1], offset |-> cs[p][2], _score |-> NativeScore(sc[p])]] :
        cs \in {c \in SeqsUpTo(Chunks, MaxLen) :
                   \A a, b \in 1..Len(c) : a # b => c[a] # c[b]},
        sc \in Scorings}

Pending == [kind |-> "pending", hits |-> <<>>]

\* What awaiting one search can give: a response with hits, an exception
\* (transport error, timeout), or a response without the 'hits' structure.
Outcomes ==
    {[kind |-> "hits", hits |-> h] : h \in HitLists}
        \cup {[kind |-> "exception", hits |-> <<>>],
              [kind |-> "malformed", hits |-> <<>>]}

\* f"{doc['_id']}_{chunk['_nested']['offset']}": the offset is the digits
\* after the last underscore, so distinct (id, offset) give distinct keys.
ChunkKey(hit) == <<hit._id, hit.offset>>

\* include_embedding and self.model
IssuesVector == include_embedding /\ model # "none"

\* Lines up to the gather: the text search coroutine and, if asked for and
\* a model is configured, the vector search coroutine are created.
BuildSearches ==
    /\ qpc = "build"
    /\ searches' = IF IssuesVector
                   THEN <<[state |-> "created", outcome |-> Pending],
                          [state |-> "created", outcome |-> Pending]>>
                   ELSE <<[state |-> "created", outcome |-> Pending]>>
    /\ qpc' = "gather"
    /\ UNCHANGED <<size, include_embedding, model, completed, responses, resp_i,
                   search_results, all_chunk_data, merged_results,
                   final_results, mergeVars, rrfVars, scanVars, engineVars, scriptVars, chunkVars>>

\* asyncio.gather(*searches, ...) schedules every coroutine and suspends.
GatherStart ==
    /\ qpc = "gather"
    /\ searches' = [s \in 1..Len(searches) |-> [searches[s] EXCEPT !.state = "inflight"]]
    /\ qpc' = "waiting"
    /\ UNCHANGED <<size, include_embedding, model, completed, responses, resp_i,
                   search_results, all_chunk_data, merged_results,
                   final_results, mergeVars, rrfVars, scanVars, engineVars, scriptVars, chunkVars>>

\* One search in flight ends, in any order, with any outcome.
Complete(s) ==
    /\ qpc = "waiting"
    /\ searches[s].state = "inflight"
    /\ \E o \in Outcomes :
          searches' = [searches EXCEPT ![s] = [state |-> "done", outcome |-> o]]
    /\ completed' = Append(completed, s)
    /\ UNCHANGED <<size, include_embedding, model, responses, resp_i,
                   search_results, all_chunk_data, merged_results,
                   final_results, qpc, mergeVars, rrfVars, scanVars, engineVars, scriptVars, chunkVars>>

GatherReadyAny == \E s \in 1..Len(searches) : searches[s].state = "done"

\* gather resumes its caller once every awaitable is done.
GatherReady == \A s \in 1..Len(searches) : searches[s].state = "done"

GatherResultsAsCompleted(ss, order) == [p \in 1..Len(ss) |-> ss[order[p]].outcome]

\* The list gather returns: one entry per awaitable, in the order of the
\* arguments, whatever the order in which they finished.
GatherResults(ss, order) == [s \in 1..Len(ss) |-> ss[s].outcome]

\* gather returns the results in the order of its arguments, exceptions
\* included (return_exceptions=True).
GatherReturn ==
    /\ qpc = "waiting"
    /\ GatherReady
    /\ responses' = GatherResults(searches, completed)
    /\ resp_i' = 1
    /\ qpc' = "aggregate"
    /\ UNCHANGED <<size, include_embedding, model, searches, completed,
                   search_results, all_chunk_data, merged_results,
                   final_results, mergeVars, rrfVars, scanVars, engineVars, scriptVars, chunkVars>>

IsFailureNever(response) == FALSE

\* isinstance(response, Exception)
IsFailure(response) == response.kind = "exception"

SearchTypeByListCount(n) == IF search_results = <<>> THEN "text" ELSE "vector"

\* "text" if i == 0 else "vector", for the 1-based position n.
SearchType(n) == IF n = 1 THEN "text" ELSE "vector"

ChunkResults(hits) == [p \in 1..Len(hits) |-> <<ChunkKey(hits[p]), hits[p]._score>>]

\* all_chunk_data after one inner hit: a record on the first sighting of
\* the key, one more score entry on a later one.
Sighted(data, hit, search_type) ==
    LET key   == ChunkKey(hit)
        entry == [search_type |-> search_type, score |-> hit._score]
    IN  IF key \notin DOMAIN data
        THEN [d \in DOMAIN data \cup {key} |->
                 IF d = key
                 THEN [document_id |-> hit._id,
                       chunk       |-> hit.offset,
                       score       |-> <<entry>>]
                 ELSE data[d]]
        ELSE [data EXCEPT ![key].score = Append(@, entry)]

RECURSIVE SightedAll(_, _, _)
SightedAll(data, hits, search_type) ==
    IF hits = <<>> THEN data
    ELSE Sighted(SightedAll(data, SubSeq(hits, 1, Len(hits) - 1), search_type),
                 hits[Len(hits)], search_type)

\* One iteration of the loop over responses.  Reading ['hits'] of anything
\* that is neither skipped nor a response with hits raises.
Aggregate ==
    /\ qpc = "aggregate"
    /\ resp_i <= Len(responses)
    /\ LET response == responses[resp_i]
       IN  IF IsFailure(response)
           THEN /\ resp_i' = resp_i + 1
                /\ UNCHANGED <<search_results, all_chunk_data, qpc>>
           ELSE IF response.kind # "hits"
           THEN /\ qpc' = "raised"
                /\ UNCHANGED <<search_results, all_chunk_data, resp_i>>
           ELSE /\ all_chunk_data' =
                      SightedAll(all_chunk_data, response.hits, SearchType(resp_i))
                /\ search_results' = Append(search_results, ChunkResults(response.hits))
                /\ resp_i' = resp_i + 1
                /\ qpc' = qpc
    /\ UNCHANGED <<size, include_embedding, model, searches, completed, responses,
                   merged_results, final_results, mergeVars, rrfVars, scanVars, engineVars, scriptVars, chunkVars>>

MergedAlwaysRrf(sr) == Rrf(sr, RRF_K)

\* One ranked list is returned as it is; several are fused with k = 60.
Merged(sr) ==
    IF Len(sr) = 1 THEN sr[1]
    ELSE IF Len(sr) > 1 THEN Rrf(sr, RRF_K)
    ELSE <<>>

Fuse ==
    /\ qpc = "aggregate"
    /\ resp_i > Len(responses)
    /\ merged_results' = Merged(search_results)
    /\ qpc' = "assemble"
    /\ UNCHANGED <<size, include_embedding, model, searches, completed, responses, resp_i,
                   search_results, all_chunk_data, final_results,
                   mergeVars, rrfVars, scanVars, engineVars, scriptVars, chunkVars>>

TruncatedNot(m, n) == m

\* merged_results[:size], for size >= 0
Truncated(m, n) == SubSeq(m, 1, IF n < Len(m) THEN n ELSE Len(m))

RECURSIVE Assembled(_, _)
\* The loop building final_results.
Assembled(m, data) ==
    IF m = <<>> THEN <<>>
    ELSE LET before == Assembled(SubSeq(m, 1, Len(m) - 1), data)
             chunk_key == m[Len(m)][1]
             rrf_score == m[Len(m)][2]
         IN  IF chunk_key \in DOMAIN data
             THEN Append(before,
                         [document_id |-> data[chunk_key].document_id,
                          chunk       |-> data[chunk_key].chunk,
                          score       |-> data[chunk_key].score,
                          rrf_score   |-> rrf_score,
                          final_score |-> rrf_score])
             ELSE before

Assemble ==
    /\ qpc = "assemble"
    /\ final_results' = Assembled(Truncated(merged_results, size), all_chunk_data)
    /\ qpc' = "returned"
    /\ UNCHANGED <<size, include_embedding, model, searches, completed, responses, resp_i,
                   search_results, all_chunk_data, merged_results,
                   mergeVars, rrfVars, scanVars, engineVars, scriptVars, chunkVars>>

InitQuery ==
    /\ size \in 0..MaxSize
    /\ include_embedding \in BOOLEAN
    /\ model \in {"none", "e5"}
    /\ searches = <<>>
    /\ completed = <<>>
    /\ responses = <<>>
    /\ resp_i = 1
    /\ search_results = <<>>
    /\ all_chunk_data = <<>>
    /\ merged_results = <<>>
    /\ final_results = <<>>
    /\ qpc = "build"
    /\ MergeIdle
    /\ RrfIdle
    /\ ScanIdle
    /\ EngineIdle
    /\ ScriptIdle
    /\ ChunkIdle

NextQuery ==
    \/ BuildSearches
    \/ GatherStart
    \/ \E s \in 1..Len(searches) : Complete(s)
    \/ GatherReturn
    \/ Aggregate
    \/ Fuse
    \/ Assemble

SpecQuery == InitQuery /\ [][NextQuery]_vars

(***************************************************************************)
(* SearchEngine.search, SearchEngine.advanced_search, _rrf_merge_multiple  *)
(*                                                                         *)
(* A response is held as its hits (each Elasticsearch document at most     *)
(* once, at most `size` of them) and its total.  What tells the copy of a  *)
(* hit in one response from its copy in another (the inner hits, with      *)
(* highlights for bm25) is held in inner_hits as the search type.          *)
(***************************************************************************)
ENGINE_K == 60

\* The documents the index holds.
Docs == {"d1", "d2"}

\* The hit lists search type t can answer to a request for n documents.
EngineHitLists(t, n) ==
    {[p \in 1..Len(ds) |->
         [_id |-> ds[p], _score |-> NativeScore(MaxLen + 1 - p), inner_hits |-> t]] :
        ds \in {d \in SeqsUpTo(Docs, IF n < Cardinality(Docs) THEN n ELSE Cardinality(Docs)) :
                   \A a, b \in 1..Len(d) : a # b => d[a] # d[b]}}

\* What es_client.client.search gives: a response, or an exception.
SourceOutcomes(t) ==
    {[kind |-> "response", hits |-> h, total |-> Len(h)] : h \in EngineHitLists(t, se_size)}
        \cup {[kind |-> "exception", hits |-> <<>>, total |-> 0]}

Response(o) == [hits |-> o.hits, total |-> o.total]

\* The BM25 search: called outside any try block.
Bm25Search ==
    /\ se_pc = "bm25"
    /\ \E o \in SourceOutcomes("bm25") :
          IF o.kind = "exception"
          THEN /\ se_pc' = "raised"
               /\ UNCHANGED se_search_results
          ELSE /\ se_search_results' = Append(se_search_results, <<"bm25", Response(o)>>)
               /\ se_pc' = "vector"
    /\ UNCHANGED <<se_method, enable_fuzzy, enable_phrase, se_size, se_log,
                   combined_results, se_returned,
                   mergeVars, rrfVars, queryVars, scanVars, scriptVars, chunkVars>>

\* try: response = <search t>; search_results.append((t, response))
\* except Exception as e: print(...)
TriedSearch(t) ==
    \E o \in SourceOutcomes(t) :
        IF o.kind = "exception"
        THEN /\ se_log' = Append(se_log, t)
             /\ UNCHANGED se_search_results
        ELSE /\ se_search_results' = Append(se_search_results, <<t, Response(o)>>)
             /\ UNCHANGED se_log

VectorSearch ==
    /\ se_pc = "vector"
    /\ TriedSearch("vector")
    /\ se_pc' = IF se_method = "search" THEN "merge" ELSE "fuzzy"
    /\ UNCHANGED <<se_method, enable_fuzzy, enable_phrase, se_size,
                   combined_results, se_returned,
                   mergeVars, rrfVars, queryVars, scanVars, scriptVars, chunkVars>>

\* if enable_fuzzy: try ... except ...
FuzzySearch ==
    /\ se_pc = "fuzzy"
    /\ IF enable_fuzzy THEN TriedSearch("fuzzy")
       ELSE UNCHANGED <<se_search_results, se_log>>
    /\ se_pc' = "phrase"
    /\ UNCHANGED <<se_method, enable_fuzzy, enable_phrase, se_size,
                   combined_results, se_returned,
                   mergeVars, rrfVars, queryVars, scanVars, scriptVars, chunkVars>>

\* if enable_phrase: try ... except ...
PhraseSearch ==
    /\ se_pc = "phrase"
    /\ IF enable_phrase THEN TriedSearch("phrase")
       ELSE UNCHANGED <<se_search_results, se_log>>
    /\ se_pc' = "merge"
    /\ UNCHANGED <<se_method, enable_fuzzy, enable_phrase, se_size,
                   combined_results, se_returned,
                   mergeVars, rrfVars, queryVars, scanVars, scriptVars, chunkVars>>

HasHit(hits, doc_id) == \E p \in 1..Len(hits) : hits[p]._id = doc_id

\* {hit['_id']: hit for hit in hits}[doc_id]: the last hit with that id.
HitOf(hits, doc_id) ==
    hits[CHOOSE p \in 1..Len(hits) :
            /\ hits[p]._id = doc_id
            /\ \A p2 \in (p + 1)..Len(hits) : hits[p2]._id # doc_id]

\* next(i for i, hit in enumerate(hits) if hit['_id'] == doc_id): 0-based
\* index of the first hit with that id.
FirstIndex(hits, doc_id) ==
    (CHOOSE p \in 1..Len(hits) :
        /\ hits[p]._id = doc_id
        /\ \A p2 \in 1..(p - 1) : hits[p2]._id # doc_id) - 1

\* all_doc_ids
AllDocIds(sr) == UNION {{sr[n][2].hits[p]._id : p \in 1..Len(sr[n][2].hits)} : n \in 1..Len(sr)}

\* The orders in which a Python set of strings can be iterated.
IterationOrders(S) ==
    {o \in SeqsUpTo(S, Cardinality(S)) :
        /\ Len(o) = Cardinality(S)
        /\ \A a, b \in 1..Len(o) : a # b => o[a] # o[b]}

EngineReciprocalPlusTwo(kk, rank) == Denom(kk, MaxLen) \div (kk + rank + 2)

\* 1 / (k + rank + 1) for the 0-based rank, times Denom(k, MaxLen).
EngineReciprocal(kk, rank) == Denom(kk, MaxLen) \div (kk + rank + 1)

RECURSIVE EngineScore(_, _, _, _)
\* rrf_score of doc_id after the first n entries of search_results.
EngineScore(sr, doc_id, kk, n) ==
    IF n = 0 THEN 0
    ELSE IF HasHit(sr[n][2].hits, doc_id)
         THEN EngineScore(sr, doc_id, kk, n - 1)
                 + EngineReciprocal(kk, FirstIndex(sr[n][2].hits, doc_id))
         ELSE EngineScore(sr, doc_id, kk, n - 1)

\* rrf_scores.items(), filled in the iteration order of all_doc_ids.
RrfScores(sr, kk, order) ==
    [p \in 1..Len(order) |-> <<order[p], EngineScore(sr, order[p], kk, Len(sr))>>]

\* The entry of search_results whose copy of the hit is taken: bm25, then
\* vector, then the first one that has it.
BestHolder(sr, doc_id) ==
    LET holders == {n \in 1..Len(sr) : HasHit(sr[n][2].hits, doc_id)}
    IN  IF \E n \in holders : sr[n][1] = "bm25"
        THEN CHOOSE n \in holders : sr[n][1] = "bm25"
        ELSE IF \E n \in holders : sr[n][1] = "vector"
        THEN CHOOSE n \in holders : sr[n][1] = "vector"
        ELSE CHOOSE n \in holders : \A n2 \in holders : n <= n2

MergedHit(sr, doc_id, rrf_score) ==
    LET hit == HitOf(sr[BestHolder(sr, doc_id)][2].hits, doc_id)
    IN  [_id        |-> hit._id,
         inner_hits |-> hit.inner_hits,
         _score     |-> rrf_score * 100,
         _rrf_score |-> rrf_score]

\* _rrf_merge_multiple(search_results, size, k), with all_doc_ids iterated
\* in the given order.
RrfMergeMultiple(sr, n, kk, order) ==
    LET sorted_docs == Truncated(SortedItems(RrfScores(sr, kk, order)), n)
        merged_hits == [p \in 1..Len(sorted_docs) |->
                           MergedHit(sr, sorted_docs[p][1], sorted_docs[p][2])]
    IN  [hits |-> merged_hits, total |-> Len(merged_hits)]

\* _format_results(response)
FormatResults(response) ==
    [total   |-> response.total,
     results |-> [p \in 1..Len(response.hits) |->
                    LET hit == response.hits[p]
                    IN  IF "_rrf_score" \in DOMAIN hit
                        THEN [id |-> hit._id, score |-> hit._score,
                              highlights |-> hit.inner_hits,
                              rrf_score |-> hit._rrf_score]
                        ELSE [id |-> hit._id, score |-> hit._score,
                              highlights |-> hit.inner_hits]]]

\* Several lists are merged, a single one is passed on as it is; the result
\* is formatted and returned.
CombineAndReturn ==
    /\ se_pc = "merge"
    /\ \E order \in IterationOrders(AllDocIds(se_search_results)) :
          LET combined == IF Len(se_search_results) > 1
                          THEN RrfMergeMultiple(se_search_results, se_size, ENGINE_K, order)
                          ELSE se_search_results[1][2]
          IN  /\ combined_results' = combined
              /\ se_returned' = FormatResults(combined)
    /\ se_pc' = "returned"
    /\ UNCHANGED <<se_method, enable_fuzzy, enable_phrase, se_size,
                   se_search_results, se_log,
                   mergeVars, rrfVars, queryVars, scanVars, scriptVars, chunkVars>>

InitEngine ==
    /\ se_method \in {"search", "advanced_search"}
    /\ enable_fuzzy \in (IF se_method = "search" THEN {FALSE} ELSE BOOLEAN)
    /\ enable_phrase \in (IF se_method = "search" THEN {FALSE} ELSE BOOLEAN)
    /\ se_size \in 0..MaxSize
    /\ se_search_results = <<>>
    /\ se_log = <<>>
    /\ combined_results = <<>>
    /\ se_returned = <<>>
    /\ se_pc = "bm25"
    /\ MergeIdle
    /\ RrfIdle
    /\ QueryIdle
    /\ ScanIdle
    /\ ScriptIdle
    /\ ChunkIdle

NextEngine ==
    \/ Bm25Search
    \/ VectorSearch
    \/ FuzzySearch
    \/ PhraseSearch
    \/ CombineAndReturn

SpecEngine == InitEngine /\ [][NextEngine]_vars

(***************************************************************************)
(* ElasticsearchClient.get_chunking_script: fixed-size chunking            *)
(*                                                                         *)
(* The script is modelled for a document that has content.  Painless int   *)
(* is Java's 32-bit int, and content.length() is such an int; the model    *)
(* keeps the wrap-around of int arithmetic at a width of IntBits bits.     *)
(***************************************************************************)
\* Bound: width of int in bits.
IntBits == 4

INT_MAX == 2 ^ (IntBits - 1) - 1

\* The int that a sum or difference of ints yields.
Wrap(x) == ((x + 2 ^ (IntBits - 1)) % (2 ^ IntBits)) - 2 ^ (IntBits - 1)

\* if (overlap >= chunkSize) { overlap = chunkSize / 2; }
ClampedOverlap(o, c) == IF o >= c THEN c \div 2 ELSE o

\* (int)Math.min(start + chunkSize, content.length())
ChunkEnd(s, c, len) == IF Wrap(s + c) < len THEN Wrap(s + c) ELSE len

NextStartStuck(s, c, o) == s

\* int nextStart = start + chunkSize - overlap;
\* if (nextStart <= start) { nextStart = start + 1; }
NextStart(s, c, o) ==
    LET nextStart == Wrap(Wrap(s + c) - o)
    IN  IF nextStart <= s THEN Wrap(s + 1) ELSE nextStart

ClampOverlap ==
    /\ ck_pc = "clamp"
    /\ overlap' = ClampedOverlap(overlap, chunkSize)
    /\ ck_pc' = "loop"
    /\ UNCHANGED <<content_length, chunkSize, start, fixed_chunks,
                   mergeVars, rrfVars, queryVars, scanVars, engineVars, scriptVars>>

\* One iteration of the while loop.  content.substring(start, end) throws
\* when end < start; the break leaves the loop once end reaches the length.
ChunkStep ==
    /\ ck_pc = "loop"
    /\ start < content_length
    /\ LET end == ChunkEnd(start, chunkSize, content_length)
       IN  IF end < start
           THEN /\ ck_pc' = "raised"
                /\ UNCHANGED <<start, fixed_chunks>>
           ELSE /\ fixed_chunks' = Append(fixed_chunks, <<start, end>>)
                /\ start' = NextStart(start, chunkSize, overlap)
                /\ ck_pc' = IF end >= content_length THEN "done" ELSE "loop"
    /\ UNCHANGED <<content_length, chunkSize, overlap,
                   mergeVars, rrfVars, queryVars, scanVars, engineVars, scriptVars>>

\* The loop condition start < content.length() fails: ctx.chunks = chunks.
LoopExit ==
    /\ ck_pc = "loop"
    /\ ~(start < content_length)
    /\ ck_pc' = "done"
    /\ UNCHANGED <<content_length, chunkSize, overlap, start, fixed_chunks,
                   mergeVars, rrfVars, queryVars, scanVars, engineVars, scriptVars>>

\* chunk_size >= 1 and overlap >= 0, spliced into the script as int literals.
InitChunking ==
    /\ content_length \in 0..INT_MAX
    /\ chunkSize \in 1..INT_MAX
    /\ overlap \in 0..INT_MAX
    /\ start = 0
    /\ fixed_chunks = <<>>
    /\ ck_pc = "clamp"
    /\ MergeIdle
    /\ RrfIdle
    /\ QueryIdle
    /\ ScanIdle
    /\ EngineIdle
    /\ ScriptIdle

NextChunking == ClampOverlap \/ ChunkStep \/ LoopExit

\* The script runs to its end on the ingest thread: a step that can be
\* taken is taken.
SpecChunking == InitChunking /\ [][NextChunking]_vars /\ WF_vars(NextChunking)

(***************************************************************************)
(* Claims about the merge pass (checked under SpecMerge)                   *)
(***************************************************************************)
MIN_LEN == MAX_SENTENCE_LENGTH \div 2

\* C1: every span split_text returns has length >= MIN_LEN
\* (= MAX_SENTENCE_LENGTH // 2 = 300), unless the document has a sole span.
C1_ReturnedSpansLongEnough ==
    mpc = "done" =>
        \A p \in 1..Len(Returned) :
            \/ Returned[p].metadata.length >= MIN_LEN
            \/ Len(input) = 1

\* A document of several spans, some short, returns several spans and one
\* of them absorbed a short neighbour.
C1_Witness ==
    /\ mpc = "done"
    /\ Len(Returned) >= 2
    /\ \E j \in 1..Len(input) : input[j].metadata.length < MIN_LEN
    /\ \E p \in 1..Len(Returned) : Len(Returned[p].content) >= 2

\* C9: the span at 0-based position p of the returned sequence has metadata
\* index p, whatever index the scan gave it.
C9_ReturnedReindexed ==
    mpc = "done" =>
        \A p \in 1..Len(Returned) : Returned[p].metadata.index = p - 1

\* A returned span whose index from the scan differs from its position.
C9_Witness ==
    /\ mpc = "done"
    /\ \E p \in 1..Len(Returned) : input[result[p]].metadata.index # p - 1

\* The short span under the loop has no chunk in result to its left and no
\* next original span.
C10_NoNeighbour ==
    /\ InLoop
    /\ chunk_length < MIN_LEN
    /\ result = <<>>
    /\ i = Len(chunks)

\* C10: a short span with neither a left neighbour in result nor a next
\* original span is dropped without raising (the loop moves on and result
\* stays empty); a document whose only span is short returns no span.
C10_DroppedSilently ==
    /\ [](mpc # "raised")
    /\ [][C10_NoNeighbour => (result' = <<>> /\ mpc' = "loop" /\ i' = i + 1)]_vars
    /\ []((mpc = "done" /\ Len(input) = 1 /\ input[1].metadata.length < MIN_LEN)
            => Returned = <<>>)

\* A one-span document whose span is short has been processed.
C10_Witness ==
    /\ mpc = "done"
    /\ Len(input) = 1
    /\ input[1].metadata.length < MIN_LEN
    /\ Returned = <<>>

RECURSIVE Concatenated(_)
\* The contents of the spans of a sequence, joined in order.
Concatenated(spans) ==
    IF spans = <<>> THEN <<>>
    ELSE Concatenated(SubSeq(spans, 1, Len(spans) - 1)) \o spans[Len(spans)].content

\* C11: for the end-to-end scenario text (every span shorter than MIN_LEN)
\* the merge pass returns 1 or 2 chunks whose contents, joined, follow the
\* source order.
C11_ScenarioOneOrTwoChunks ==
    (mpc = "done" /\ input = ScenarioChunks) =>
        /\ Len(Returned) \in {1, 2}
        /\ Concatenated(Returned) = Concatenated(input)

\* The short span under the loop has a chunk in result to its left or a
\* next original span.
C18_ShortWithNeighbour ==
    /\ InLoop
    /\ chunk_length < MIN_LEN
    /\ (result # <<>> \/ i < Len(chunks))

\* left exists and is not longer than right (an absent right is infinite).
C18_LeftChosen ==
    /\ result # <<>>
    /\ \/ i = Len(chunks)
       \/ chunks[Last(result)].metadata.length <= chunks[i + 1].metadata.length

C18_FoldedLeft ==
    /\ result # <<>>
    /\ chunks'[Last(result)].content = chunks[Last(result)].content \o chunks[i].content

C18_FoldedRight ==
    /\ i < Len(chunks)
    /\ chunks'[i + 1].content = chunks[i].content \o chunks[i + 1].content

\* C18: a short span with a neighbour is folded into left iff left exists
\* and length(left) <= length(right), an absent neighbour counting as
\* infinitely long; otherwise into right.  Ties go to left.
C18_FoldsIntoShorterSide ==
    [][C18_ShortWithNeighbour =>
          IF C18_LeftChosen
          THEN C18_FoldedLeft /\ ~C18_FoldedRight
          ELSE C18_FoldedRight /\ ~C18_FoldedLeft]_vars

\* Span i-1 has just been folded into a left chunk that was exactly as long
\* as the next span i.
C18_Witness ==
    /\ mpc = "loop"
    /\ result # <<>>
    /\ i >= 2
    /\ i <= Len(chunks)
    /\ Last(result) < i - 1
    /\ Last(chunks[Last(result)].content) = i - 1
    /\ chunks[Last(result)].metadata.length - chunks[i - 1].metadata.length
          = chunks[i].metadata.length

RECURSIVE ScannedLength(_)
\* Sum of the scanned lengths of the input spans named by ids.
ScannedLength(ids) ==
    IF ids = <<>> THEN 0
    ELSE ScannedLength(SubSeq(ids, 1, Len(ids) - 1)) + input[Last(ids)].metadata.length

IsRun(ids) ==
    /\ ids # <<>>
    /\ \A j \in 1..(Len(ids) - 1) : ids[j + 1] = ids[j] + 1

\* C20: every returned span is the concatenation in source order of a
\* contiguous run of input spans, from the start of the first to the end
\* of the last, its length the sum of theirs; consecutive returned spans
\* cover disjoint runs in increasing order (a.end <= b.start).
C20_ReturnedSpansAreRuns ==
    mpc = "done" =>
        /\ \A p \in 1..Len(Returned) :
              /\ IsRun(Returned[p].content)
              /\ Returned[p].metadata.start = input[Returned[p].content[1]].metadata.start
              /\ Returned[p].metadata.end = input[Last(Returned[p].content)].metadata.end
              /\ Returned[p].metadata.length = ScannedLength(Returned[p].content)
        /\ \A p \in 1..(Len(Returned) - 1) :
              /\ Last(Returned[p].content) < Returned[p + 1].content[1]
              /\ Returned[p].metadata.end <= Returned[p + 1].metadata.start

\* Two returned spans, the first extended to its left and the second to
\* its right, with unmatched text between them.
C20_Witness ==
    /\ mpc = "done"
    /\ Len(Returned) = 2
    /\ Returned[1].content[1] < result[1]
    /\ Last(Returned[2].content) > result[2]
    /\ Returned[2].metadata.start > Returned[1].metadata.end

\* The function MergePass gives what the loop returns.
MergePassIsReturned == mpc = "done" => Returned = MergePass(input)

\* The merge output for the match list cs holds a span shorter than MIN_LEN.
KeepsShortSpan(cs) ==
    \E p \in 1..Len(MergePass(cs)) : MergePass(cs)[p].metadata.length < MIN_LEN

\* C21: there are inputs for which the merge output still contains a span
\* with length < MIN_LEN (the final span, or one whose only neighbours were
\* already merged): the input at hand or another match list has such an
\* output.
C21_SomeOutputKeepsShortSpan ==
    \/ \E cs \in {input, ScenarioChunks} : KeepsShortSpan(cs)
    \/ \E n \in 0..MaxSpans :
          \E lens \in [1..n -> SpanLengths], gaps \in [1..n -> Gaps] :
              KeepsShortSpan(ScannedChunks(lens, gaps))

\* Sum of the lengths of all input spans.
TotalInputLength == ScannedLength([j \in 1..Len(input) |-> j])

\* C24: whenever the total length of the input spans is >= MIN_LEN, the
\* merge pass (of split_text and of the script) loses, duplicates and
\* reorders nothing: the contents of the output spans, joined, are the
\* contents of all input spans, joined in order.
C24_NothingLost ==
    TotalInputLength >= MIN_LEN =>
        /\ mpc = "done" => Concatenated(Returned) = Concatenated(input)
        /\ script_pc = "done" => Concatenated(ctx_chunks) = Concatenated(input)

\* Both loops have run on some short and some long spans, and a returned
\* span took in a short span from each side.
C24_Witness ==
    /\ mpc = "done"
    /\ script_pc = "done"
    /\ TotalInputLength >= MIN_LEN
    /\ \E p \in 1..Len(Returned) :
          /\ Returned[p].content[1] < result[p]
          /\ Last(Returned[p].content) > result[p]
          /\ input[result[p] - 1].metadata.length < MIN_LEN
          /\ input[result[p] + 1].metadata.length < MIN_LEN

\* C25: the merge pass returns the empty sequence if and only if the sum of
\* the lengths of all input spans is < MIN_LEN (the empty input included);
\* then nothing of the document's content is returned.
C25_EmptyIffTotalShort ==
    mpc = "done" => (Returned = <<>> <=> TotalInputLength < MIN_LEN)

\* Several short spans that total less than MIN_LEN gave the empty result.
C25_Witness ==
    /\ mpc = "done"
    /\ Len(input) >= 2
    /\ TotalInputLength < MIN_LEN
    /\ Returned = <<>>

\* The length of the longest input span (0 for no span).
LongestInput ==
    IF input = <<>> THEN 0
    ELSE LET j == CHOOSE a \in 1..Len(input) :
                     \A b \in 1..Len(input) :
                         input[b].metadata.length <= input[a].metadata.length
         IN  input[j].metadata.length

\* C26: if every input span has length <= M, every output span has length
\* <= M + 2 * (MIN_LEN - 1).
C26_OutputLengthBounded ==
    mpc = "done" =>
        \A p \in 1..Len(Returned) :
            Returned[p].metadata.length <= LongestInput + 2 * (MIN_LEN - 1)

\* A returned span that took in short spans from both sides and reaches
\* the bound.
C26_Witness ==
    /\ mpc = "done"
    /\ \E p \in 1..Len(Returned) :
          /\ Returned[p].content[1] < result[p]
          /\ Last(Returned[p].content) > result[p]
          /\ Returned[p].metadata.length = LongestInput + 2 * (MIN_LEN - 1)

\* C27: the Painless merge loop and the Python merge loop are equivalent:
\* on every match list they give output spans with the same contents,
\* lengths, starts, ends and indices, with the same threshold
\* MAX_SENTENCE_LENGTH // 2.
C27_ScriptEqualsSplitText ==
    /\ minChunkLength = min_chunk_length
    /\ (mpc = "done" /\ script_pc = "done") => ctx_chunks = Returned

\* Both loops have run on a match list on which a span was re-indexed,
\* took in the short span before it and then, on a tie between its length
\* and the length of the next span, the short span after it.
C27_Witness ==
    /\ mpc = "done"
    /\ script_pc = "done"
    /\ \E p \in 1..Len(ctx_chunks) :
          LET r == result[p]
          IN  /\ ctx_chunks[p].content = <<r - 1, r, r + 1>>
              /\ r + 2 <= Len(input)
              /\ input[r - 1].metadata.length + input[r].metadata.length
                    = input[r + 2].metadata.length
              /\ input[r].metadata.index # p - 1

(***************************************************************************)
(* Claims about rrf (checked under SpecRrf)                                *)
(***************************************************************************)
\* The lists (by position in queries) that contain key d.
ListsWith(d) == {l \in 1..Len(queries) : d \in Range(KeysOf(queries[l]))}

\* 1-based position of d in list l, for a list without duplicate keys.
PositionIn(l, d) == CHOOSE p \in 1..Len(queries[l]) : queries[l][p][1] = d

RECURSIVE SumOfReciprocals(_, _)
\* Sum over the lists ls of 1/(k + position of d), times Denom(k, MaxLen).
SumOfReciprocals(d, ls) ==
    IF ls = {} THEN 0
    ELSE LET l == CHOOSE x \in ls : TRUE
         IN  (Denom(k, MaxLen) \div (k + PositionIn(l, d)))
                 + SumOfReciprocals(d, ls \ {l})

AllKeys == UNION {Range(KeysOf(queries[l])) : l \in 1..Len(queries)}

AllListsDuplicateFree == \A l \in 1..Len(queries) : NoDuplicateKeys(queries[l])

\* C2: for lists without duplicate keys, rrf returns exactly one pair per
\* key of any list, its score is the sum of 1/(k + rank) over the lists that
\* contain it, and the pairs are in non-increasing score order.
C2_RrfScoresAndOrder ==
    (rpc = "done" /\ AllListsDuplicateFree) =>
        /\ Range(KeysOf(rrf_out)) = AllKeys
        /\ Len(rrf_out) = Cardinality(AllKeys)
        /\ \A p \in 1..Len(rrf_out) :
              rrf_out[p][2] = SumOfReciprocals(rrf_out[p][1], ListsWith(rrf_out[p][1]))
        /\ \A p, q \in 1..Len(rrf_out) : p < q => rrf_out[p][2] >= rrf_out[q][2]

\* Two lists sharing keys at different ranks, with k > 0, have been fused.
C2_Witness ==
    /\ rpc = "done"
    /\ k = 60
    /\ Len(queries) = 2
    /\ Len(rrf_out) = 3
    /\ \E d \in AllKeys :
          /\ ListsWith(d) = {1, 2}
          /\ PositionIn(1, d) # PositionIn(2, d)
    /\ \E d \in AllKeys : Cardinality(ListsWith(d)) = 1

FirstList(d) == CHOOSE l \in ListsWith(d) : \A l2 \in ListsWith(d) : l <= l2

\* d is met before e when the lists are scanned in argument order, each
\* item by item.
SeenBefore(d, e) ==
    \/ FirstList(d) < FirstList(e)
    \/ /\ FirstList(d) = FirstList(e)
       /\ PositionIn(FirstList(d), d) < PositionIn(FirstList(e), e)

\* The arguments A = [x, y, z], B = [y, x, z], k = 60.
C7_Example ==
    /\ k = 60
    /\ Len(queries) = 2
    /\ KeysOf(queries[1]) = <<"x", "y", "z">>
    /\ KeysOf(queries[2]) = <<"y", "x", "z">>

\* C7: items of equal fused score keep the order in which they were first
\* met (lists in argument order, each item by item); A = [x, y, z],
\* B = [y, x, z], k = 60 gives x, y, z with score(x) = score(y) > score(z).
C7_TiesKeepFirstSeenOrder ==
    rpc = "done" =>
        /\ \A p, q \in 1..Len(rrf_out) :
              (p < q /\ rrf_out[p][2] = rrf_out[q][2])
                  => SeenBefore(rrf_out[p][1], rrf_out[q][1])
        /\ C7_Example =>
              /\ KeysOf(rrf_out) = <<"x", "y", "z">>
              /\ rrf_out[1][2] = rrf_out[2][2]
              /\ rrf_out[2][2] > rrf_out[3][2]

\* The example has been fused.
C7_Witness == rpc = "done" /\ C7_Example /\ Len(rrf_out) = 3

\* C8: for a single list L without duplicate keys and any k >= 0, rrf
\* returns the items of L in the order of L.
C8_SingleListKeepsOrder ==
    (rpc = "done" /\ Len(queries) = 1 /\ NoDuplicateKeys(queries[1])) =>
        KeysOf(rrf_out) = KeysOf(queries[1])

\* A single three-item list whose native scores increase down the list has
\* been fused with k = 0.
C8_Witness ==
    /\ rpc = "done"
    /\ Len(queries) = 1
    /\ Len(queries[1]) = 3
    /\ queries[1][1][2] < queries[1][3][2]
    /\ k = 0
    /\ Len(rrf_out) = 3

\* The list q with its native scores replaced by sc, position by position.
WithScores(q, sc) == [p \in 1..Len(q) |-> <<q[p][1], sc[p]>>]

\* C28: rrf depends only on list order, not on native scores: a call whose
\* lists hold the same keys in the same positions with other native scores
\* (descending, ascending or all equal) returns the same keys in the same
\* order with the same fused scores.
C28_NativeScoresIgnored ==
    rpc = "done" =>
        \A sc \in Scorings \cup {[p \in 1..MaxLen |-> 0]} :
            Rrf([l \in 1..Len(queries) |-> WithScores(queries[l], sc)], k) = rrf_out

\* Two lists were fused, one of them with native scores that rise along
\* the list.
C28_Witness ==
    /\ rpc = "done"
    /\ Len(queries) = 2
    /\ Len(rrf_out) >= 2
    /\ \E l \in 1..2 :
          /\ Len(queries[l]) >= 2
          /\ queries[l][1][2] < queries[l][2][2]
    /\ \E l \in 1..2 :
          /\ Len(queries[l]) >= 2
          /\ queries[l][1][2] > queries[l][2][2]

(***************************************************************************)
(* Claims about Collection.query (checked under SpecQuery)                 *)
(***************************************************************************)
Gathered == qpc \in {"aggregate", "assemble", "returned", "raised"}

\* The vector sub-query raised and the lexical one returned hits.
VectorFailedTextOk ==
    /\ Gathered
    /\ Len(responses) = 2
    /\ responses[1].kind = "hits"
    /\ responses[2].kind = "exception"

LexicalHits == responses[1].hits

Min(a, b) == IF a < b THEN a ELSE b

\* final_results are the first `size` items of the lexical list, in its
\* order (the order of fuse([lexical_list]) for distinct keys).
LexicalItemsInOrder ==
    /\ Len(final_results) = Min(size, Len(LexicalHits))
    /\ \A p \in 1..Len(final_results) :
          /\ final_results[p].document_id = LexicalHits[p]._id
          /\ final_results[p].chunk = LexicalHits[p].offset

AllFailed ==
    /\ Gathered
    /\ \A s \in 1..Len(responses) : responses[s].kind = "exception"

\* C4: if every issued sub-query fails with an exception, query does not
\* raise and returns an empty list.
C4_AllFailedReturnsEmpty ==
    AllFailed =>
        /\ qpc # "raised"
        /\ qpc = "returned" => final_results = <<>>

\* Both sub-queries were issued, both failed, and query returned.
C4_Witness ==
    /\ AllFailed
    /\ Len(responses) = 2
    /\ size > 0
    /\ qpc = "returned"

\* C5: whatever the sub-queries' outcomes, query returns at most size
\* results.
C5_AtMostSize == qpc = "returned" => Len(final_results) <= size

\* Two successful sub-queries with more distinct chunks than size.
C5_Witness ==
    /\ qpc = "returned"
    /\ Len(search_results) = 2
    /\ Cardinality(DOMAIN all_chunk_data) > size
    /\ Len(final_results) = size
    /\ size > 0

NoneInFlight == \A s \in 1..Len(searches) : searches[s].state = "done"

AggregationBegun ==
    \/ qpc \in {"aggregate", "assemble", "returned", "raised"}
    \/ search_results # <<>>
    \/ DOMAIN all_chunk_data # {}

\* C6: aggregation begins only after every issued sub-query has completed
\* or failed, and neither the per-item map nor the list of ranked lists
\* changes while a sub-query is in flight.
C6_AggregationAfterBarrier ==
    /\ [](AggregationBegun => (searches # <<>> /\ NoneInFlight))
    /\ [][(all_chunk_data' # all_chunk_data \/ search_results' # search_results)
             => NoneInFlight]_vars

\* Two sub-queries were issued and the aggregation has taken in the first.
C6_Witness ==
    /\ qpc = "aggregate"
    /\ Len(searches) = 2
    /\ resp_i = 2
    /\ Len(search_results) = 1
    /\ DOMAIN all_chunk_data # {}

SomeMalformed ==
    /\ Gathered
    /\ \E s \in 1..Len(responses) : responses[s].kind = "malformed"

\* The ranked lists of the sub-queries that returned hits, in issue order.
SuccessfulLists ==
    LET ok == {s \in 1..Len(responses) : responses[s].kind = "hits"}
    IN  IF ok = {} THEN <<>>
        ELSE IF ok = {1, 2}
             THEN <<ChunkResults(responses[1].hits), ChunkResults(responses[2].hits)>>
             ELSE <<ChunkResults(responses[CHOOSE s \in ok : TRUE].hits)>>

\* C12: a sub-query that completes with a malformed response (no hits
\* structure) is dropped like a failed one: query does not raise and the
\* ranked lists it merges are those of the remaining successful sub-queries.
C12_MalformedDropped ==
    SomeMalformed =>
        /\ qpc # "raised"
        /\ qpc \in {"assemble", "returned"} => search_results = SuccessfulLists

\* 1-based position of the first occurrence of d in list l.
FirstPositionIn(l, d) ==
    CHOOSE p \in 1..Len(queries[l]) :
        /\ queries[l][p][1] = d
        /\ \A p2 \in 1..(p - 1) : queries[l][p2][1] # d

RECURSIVE SumOfFirstReciprocals(_, _)
SumOfFirstReciprocals(d, ls) ==
    IF ls = {} THEN 0
    ELSE LET l == CHOOSE x \in ls : TRUE
         IN  (Denom(k, MaxLen) \div (k + FirstPositionIn(l, d)))
                 + SumOfFirstReciprocals(d, ls \ {l})

\* C13: when a key occurs more than once in a list, rrf counts the rank of
\* its first occurrence for that list and ignores the later ones, with no
\* error (checked under SpecRrfDup).
C13_FirstOccurrenceRank ==
    rpc = "done" =>
        /\ Range(KeysOf(rrf_out)) = AllKeys
        /\ Len(rrf_out) = Cardinality(AllKeys)
        /\ \A p \in 1..Len(rrf_out) :
              rrf_out[p][2] =
                  SumOfFirstReciprocals(rrf_out[p][1], ListsWith(rrf_out[p][1]))

\* The sub-query at position s returned hits and its list holds the chunk.
SourceHas(s, doc, offset) ==
    /\ s <= Len(responses)
    /\ responses[s].kind = "hits"
    /\ \E p \in 1..Len(responses[s].hits) :
          responses[s].hits[p]._id = doc /\ responses[s].hits[p].offset = offset

NativeScoreIn(s, doc, offset) ==
    LET p == CHOOSE q \in 1..Len(responses[s].hits) :
                 responses[s].hits[q]._id = doc /\ responses[s].hits[q].offset = offset
    IN  responses[s].hits[p]._score

TextRecord(doc, offset) ==
    [search_type |-> "text", score |-> NativeScoreIn(1, doc, offset)]

VectorRecord(doc, offset) ==
    [search_type |-> "vector", score |-> NativeScoreIn(2, doc, offset)]

\* One record per successful source holding the chunk: the lexical one
\* first (sighted first), then the vector one.
ExpectedScoreList(doc, offset) ==
    (IF SourceHas(1, doc, offset) THEN <<TextRecord(doc, offset)>> ELSE <<>>)
        \o (IF SourceHas(2, doc, offset) THEN <<VectorRecord(doc, offset)>> ELSE <<>>)

\* C14: every returned result carries one score record per successful
\* source whose list contains the item, with that source's native score,
\* tagged "text" for the lexical and "vector" for the vector sub-query,
\* also when only the vector sub-query succeeded.
C14_PerSourceScores ==
    qpc = "returned" =>
        \A p \in 1..Len(final_results) :
            final_results[p].score =
                ExpectedScoreList(final_results[p].document_id, final_results[p].chunk)

\* The lexical sub-query failed, the vector one succeeded, results returned.
C14_Witness ==
    /\ qpc = "returned"
    /\ Len(responses) = 2
    /\ responses[1].kind = "exception"
    /\ responses[2].kind = "hits"
    /\ Len(final_results) >= 2

\* C15: the returned results are in non-increasing order of final_score
\* (= rrf_score), whatever the sub-queries' outcomes and native scores.
C15_SortedByFinalScore ==
    qpc = "returned" =>
        /\ \A p \in 1..Len(final_results) :
              final_results[p].final_score = final_results[p].rrf_score
        /\ \A p, q \in 1..Len(final_results) :
              p < q => final_results[p].final_score >= final_results[q].final_score

\* The score a fused list gives key d; 0 when d is not in it.
ScoreIn(out, d) ==
    IF \E p \in 1..Len(out) : out[p][1] = d
    THEN out[CHOOSE p \in 1..Len(out) : out[p][1] = d][2]
    ELSE 0

\* d stands at rank r in every list that contains it.
AtRankEverywhere(d, r) == \A l \in ListsWith(d) : PositionIn(l, d) = r

C17_NonEmptyTextHasSpan ==
    spc = "done" =>
        /\ text # <<>> => matches # <<>>
        /\ text = <<>> => matches = <<>>

RECURSIVE ListsOfIssued(_)
\* The ranked lists of the first n sub-queries, in issue order, for those
\* that ended with hits.
ListsOfIssued(n) ==
    IF n = 0 THEN <<>>
    ELSE IF searches[n].outcome.kind = "hits"
         THEN Append(ListsOfIssued(n - 1), ChunkResults(searches[n].outcome.hits))
         ELSE ListsOfIssued(n - 1)

RECURSIVE DataOfIssued(_)
\* The per-chunk records of the first n sub-queries, taken in issue order.
DataOfIssued(n) ==
    IF n = 0 THEN <<>>
    ELSE IF searches[n].outcome.kind = "hits"
         THEN SightedAll(DataOfIssued(n - 1), searches[n].outcome.hits, SearchType(n))
         ELSE DataOfIssued(n - 1)

\* C22: query issues all its sub-queries before waiting on any of them
\* (none is still to be started once query waits or one has finished), and
\* what it returns (items, order, scores, source tags) is fixed by the
\* outcome of each sub-query by issue position, whatever the order in which
\* the sub-queries completed.
C22_ConcurrentOrderIndependent ==
    /\ (qpc = "waiting" \/ completed # <<>>) =>
           \A s \in 1..Len(searches) : searches[s].state # "created"
    /\ qpc = "returned" =>
           final_results =
               Assembled(Truncated(Merged(ListsOfIssued(Len(searches))), size),
                         DataOfIssued(Len(searches)))

\* The vector sub-query finished before the lexical one, both with hits
\* and with different lists, and query has returned items.
C22_Witness ==
    /\ qpc = "returned"
    /\ completed = <<2, 1>>
    /\ searches[1].outcome.kind = "hits"
    /\ searches[2].outcome.kind = "hits"
    /\ searches[1].outcome.hits # searches[2].outcome.hits
    /\ Len(final_results) >= 2

(***************************************************************************)
(* Claims about SearchEngine (checked under SpecEngine)                    *)
(***************************************************************************)
\* The search types the running method issues.
IssuedTypes ==
    {"bm25", "vector"}
        \cup (IF enable_fuzzy THEN {"fuzzy"} ELSE {})
        \cup (IF enable_phrase THEN {"phrase"} ELSE {})

MergedTypes == {se_search_results[n][1] : n \in 1..Len(se_search_results)}

\* C23: in search and advanced_search the failure of a single source, the
\* BM25 source included, is caught at the call site and not propagated to
\* the caller, and the remaining successful sources are merged.
C23_SourceFailureNotPropagated ==
    /\ se_pc # "raised"
    /\ se_pc = "returned" =>
          /\ MergedTypes = IssuedTypes \ Range(se_log)
          /\ {combined_results.hits[p]._id : p \in 1..Len(combined_results.hits)}
                \subseteq AllDocIds(se_search_results)

\* The responses in search_results as the ranked lists rrf takes:
\* (document id, native score) pairs.
EngineLists ==
    [n \in 1..Len(se_search_results) |->
        [p \in 1..Len(se_search_results[n][2].hits) |->
            <<se_search_results[n][2].hits[p]._id, se_search_results[n][2].hits[p]._score>>]]

\* The score the fused list gives to key d.
ScoreOfKey(fused, d) == fused[CHOOSE p \in 1..Len(fused) : fused[p][1] = d][2]

\* C29: for the same ranked lists without duplicate document ids and the
\* same k, _rrf_merge_multiple gives every document the score rrf gives it
\* (1/(k + 0-based position + 1) summed over the lists that contain it),
\* and stores it as _rrf_score on each merged hit.
C29_SameScoresAsRrf ==
    /\ se_pc = "merge" =>
          \A kk \in Ks :
              LET fused == Rrf(EngineLists, kk)
              IN  \A d \in AllDocIds(se_search_results) :
                      EngineScore(se_search_results, d, kk, Len(se_search_results))
                          = ScoreOfKey(fused, d)
    /\ (se_pc = "returned" /\ Len(se_search_results) > 1) =>
          LET fused == Rrf(EngineLists, ENGINE_K)
          IN  \A p \in 1..Len(combined_results.hits) :
                  combined_results.hits[p]._rrf_score
                      = ScoreOfKey(fused, combined_results.hits[p]._id)

\* Several responses were merged and a merged hit is in two of them at
\* different positions.
C29_Witness ==
    /\ se_pc = "returned"
    /\ Len(se_search_results) >= 3
    /\ Len(combined_results.hits) >= 2
    /\ \E p \in 1..Len(combined_results.hits) :
          \E n1, n2 \in 1..Len(se_search_results) :
              /\ n1 # n2
              /\ HasHit(se_search_results[n1][2].hits, combined_results.hits[p]._id)
              /\ HasHit(se_search_results[n2][2].hits, combined_results.hits[p]._id)
              /\ FirstIndex(se_search_results[n1][2].hits, combined_results.hits[p]._id)
                    # FirstIndex(se_search_results[n2][2].hits, combined_results.hits[p]._id)

(***************************************************************************)
(* Claims about get_chunking_script (checked under SpecChunking)           *)
(***************************************************************************)
\* C30: the fixed-size chunking loop terminates for every content length,
\* every chunk_size >= 1 and every overlap >= 0: the script comes to its
\* end, the start position strictly increases at every iteration, and the
\* loop goes on only while no chunk has reached the end of the content.
C30_ChunkingTerminates ==
    /\ <>(ck_pc \in {"done", "raised"})
    /\ [][(ck_pc = "loop" /\ fixed_chunks' # fixed_chunks) => start' > start]_vars
    /\ [][(ck_pc = "loop" /\ ck_pc' = "loop") =>
             Last(fixed_chunks')[2] < content_length]_vars
    /\ [](ck_pc = "done" =>
             \/ content_length = 0
             \/ /\ fixed_chunks # <<>>
                /\ Last(fixed_chunks)[2] = content_length)

\* The loop has ended after at least three overlapping chunks.
C30_Witness ==
    /\ ck_pc = "done"
    /\ Len(fixed_chunks) >= 3
    /\ overlap > 0
    /\ fixed_chunks[2][1] < fixed_chunks[1][2]

====
